---- MODULE Spec2Model ----
(***************************************************************************)
(* NonInteractiveCallbackManager (src/src/index.ts): a watcher that fires  *)
(* registered callbacks after the user stops interacting with an element.  *)
(* Two chained debounce wrappers (event stage, callback stage) run on the  *)
(* host's timer pool; time is discrete and every timer carries the number  *)
(* of ticks that remain before it is due.                                  *)
(***************************************************************************)
EXTENDS Integers, Sequences, FiniteSets, TLC

\* ---------------------------------------------------------------- bounds
MaxEd == 2          \* largest eventDebounceTimeout tried
MaxCd == 1          \* largest callbackDebounceTimeout tried
MaxTimerId == 5     \* timer handles handed out by setTimeout: 1..MaxTimerId
NumCallbacks == 2   \* distinct callback functions the holder may register
CountCap == 2       \* invocation counters saturate here
MaxN == 2           \* largest delay n given to debounce taken on its own
MaxDebId == 4       \* timer handles a wrapper taken on its own may be handed

\* ------------------------------------------------------------- constants
NoTimer == -1       \* initial value of the debounce closure's timer variable

Undefined == "<undefined>"
Null == "<null>"
NoEvent == "<no event>"

InteractiveEvents == {"mousemove", "keypress", "keydown", "click", "change"}
DefaultInteractiveEvents == <<"mousemove", "keydown", "click", "change">>
\* the raw events the document delivers: watched by every configuration
\* tried, by the default one only, by none
DeliveredEvents == {"click", "mousemove", "keypress"}

Callbacks == 1..NumCallbacks
CallEvents == {NoEvent, "custom"}
FocusTargets == {"inside", "outside", "document"}

\* ------------------------------------------------------------------- DOM
\* Four elements: elA (id "a", class "w"), elU (id "undefined"), elN (no id)
\* are children of the document body; elO (id "o") is detached: it has no
\* parent node.
Elements == {"elA", "elU", "elN", "elO"}

ElementId(e) ==
  CASE e = "elA" -> "a"
    [] e = "elU" -> "undefined"
    [] e = "elN" -> ""
    [] e = "elO" -> "o"

ParentNode(e) == IF e = "elO" THEN Null ELSE "body"

DocOrder == <<"elA", "elU", "elN">>

Matches(e, sel) == sel = "#" \o ElementId(e) \/ (sel = ".w" /\ e = "elA")

\* document.querySelector: the first element of the document, in document
\* order, that matches; null when none does.  doc is the set of elements
\* currently in the document.
QuerySelector(doc, sel) ==
  LET hits == {i \in 1..Len(DocOrder) : DocOrder[i] \in doc /\ Matches(DocOrder[i], sel)}
  IN IF hits = {} THEN Null
     ELSE DocOrder[CHOOSE i \in hits : \A j \in hits : i <= j]

\* JavaScript truthiness of an optional string
Truthy(s) == s # Undefined /\ s # ""

\* element?.id
OptId(el) == IF el = Undefined THEN Undefined ELSE ElementId(el)

\* `#${element?.id}`
TemplateId(el) == "#" \o (IF el = Undefined THEN "undefined" ELSE ElementId(el))

VARIABLES
  phase,               \* "new" | "live" | "failed": position of the constructor
  err,                 \* error thrown by the constructor, "none" if none
  params,              \* the constructor's argument object
  doc,                 \* elements currently in the document
  selector,            \* this.selector
  element,             \* this.element
  eventList,           \* this.eventList
  registeredCallbacks, \* this.registeredCallbacks
  timeoutHandle,       \* this.timeoutHandle
  listenerTimer,       \* `timer` inside this.listener (event-stage debounce)
  debouncedTimer,      \* `timer` inside `debounced` (callback-stage debounce)
  timers,              \* the host's outstanding timers
  nextId,              \* the next handle setTimeout returns
  elListeners,         \* listeners on this.element
  docListeners,        \* listeners on document
  observing,           \* the MutationObserver is connected
  attached,            \* this.element is a child of the observed parent
  released,            \* release() has run
  lastOp,              \* the step taken last
  lastArg,             \* its argument: call's event, register's callback, focus's
                       \* target; for a removal, whether the observer reported it
  ran,                 \* the listeners the last step's event was delivered to
  cleared,             \* kinds of the outstanding timers the last step cancelled
  nNotify,             \* number of notify() runs in the last step
  lastNotify,          \* callback invocations <<cb, evt>> of the last step
  sinceRaw,            \* ticks since the listener last received a raw event
  cancelSilence,       \* nothing but time has passed since cancelPending()
  burst,               \* callback invocations since the last raw event
  deb,                 \* a debounce wrapper taken on its own, with its timers
  quiet                \* nothing further is delivered: only timers run

vars == <<phase, err, params, doc, selector, element, eventList,
          registeredCallbacks, timeoutHandle, listenerTimer, debouncedTimer,
          timers, nextId, elListeners, docListeners, observing, attached,
          released, lastOp, lastArg, ran, cleared, nNotify,
          lastNotify, sinceRaw, cancelSilence, burst, deb, quiet>>

\* -------------------------------------------------------- the mutable heap
\* Handlers run to completion; each is a function from heap to heap.
St ==
  [registeredCallbacks |-> registeredCallbacks,
   timeoutHandle |-> timeoutHandle,
   listenerTimer |-> listenerTimer,
   debouncedTimer |-> debouncedTimer,
   timers |-> timers,
   nextId |-> nextId,
   elListeners |-> elListeners,
   docListeners |-> docListeners,
   observing |-> observing,
   released |-> released,
   ran |-> {},
   cleared |-> {},
   nNotify |-> 0,
   lastNotify |-> <<>>,
   burst |-> burst]

Commit(s) ==
  /\ registeredCallbacks' = s.registeredCallbacks
  /\ timeoutHandle' = s.timeoutHandle
  /\ listenerTimer' = s.listenerTimer
  /\ debouncedTimer' = s.debouncedTimer
  /\ timers' = s.timers
  /\ nextId' = s.nextId
  /\ elListeners' = s.elListeners
  /\ docListeners' = s.docListeners
  /\ observing' = s.observing
  /\ released' = s.released
  /\ ran' = s.ran
  /\ cleared' = s.cleared
  /\ nNotify' = s.nNotify
  /\ lastNotify' = s.lastNotify
  /\ burst' = s.burst

Bump(n) == IF n < CountCap THEN n + 1 ELSE CountCap

\* -------------------------------------------------------------- host timers
\* setTimeout(cb, n): the new timer gets handle s.nextId
SetTimeout(s, kind, n) ==
  [s EXCEPT !.timers = @ \cup {[id |-> s.nextId, kind |-> kind, rem |-> n]},
            !.nextId = @ + 1]

\* clearTimeout(h): no effect when h designates no outstanding timer
ClearTimeout(s, h) ==
  [s EXCEPT !.timers = {t \in @ : t.id # h},
            !.cleared = @ \cup {t.kind : t \in {u \in s.timers : u.id = h}}]

\* ----------------------------------------------------------------- watcher
\* notify, had it gone through the callbacks last to first
notify_Reversed(s, evt) ==
  LET rc == s.registeredCallbacks
      inv == [i \in 1..Len(rc) |-> <<rc[Len(rc) + 1 - i], evt>>]
  IN [s EXCEPT !.nNotify = Bump(@),
               !.lastNotify = @ \o inv,
               !.burst.fires = Bump(@)]

\* notify(evt): this.registeredCallbacks.forEach(cb => cb(evt))
notify(s, evt) ==
  LET rc == s.registeredCallbacks
      inv == [i \in 1..Len(rc) |-> <<rc[i], evt>>]
  IN [s EXCEPT !.nNotify = Bump(@),
               !.lastNotify = @ \o inv,
               !.burst.fires = Bump(@)]

\* cancelPending(): clearTimeout(this.timeoutHandle)
cancelPending(s) == ClearTimeout(s, s.timeoutHandle)

\* debounced, without the setTimeout of line 62
debounced_NoSetTimeout(s) == ClearTimeout(s, s.debouncedTimer)

\* The function debounce returns, for the wrapper built at line 175:
\* debounce(callbackDebounceTimeout, this.notify).  `now` is false there, so
\* the leading call of line 59 never happens.
debounced(s) ==
  LET now == FALSE
      s1 == IF s.debouncedTimer = NoTimer /\ now THEN notify(s, NoEvent) ELSE s
      s2 == ClearTimeout(s1, s1.debouncedTimer)
      s3 == SetTimeout(s2, "idle", params.callbackDebounceTimeout)
  IN [s3 EXCEPT !.debouncedTimer = s2.nextId]

\* pulse, had line 178 dropped the handle debounced() returns
pulse_DropsHandle(s) == debounced(cancelPending(s))

\* The arrow function of lines 176-179: the interaction pulse
pulse(s) ==
  LET s1 == cancelPending(s)
      s2 == debounced(s1)
  IN [s2 EXCEPT !.timeoutHandle = s2.debouncedTimer]

\* listener, without the clearTimeout of line 61
listener_NoClear(s) ==
  [SetTimeout(s, "event", params.eventDebounceTimeout)
     EXCEPT !.listenerTimer = s.nextId]

\* The function debounce returns, for this.listener (line 176)
listener(s) ==
  LET now == FALSE
      s1 == IF s.listenerTimer = NoTimer /\ now THEN pulse(s) ELSE s
      s2 == ClearTimeout(s1, s1.listenerTimer)
      s3 == SetTimeout(s2, "event", params.eventDebounceTimeout)
  IN [s3 EXCEPT !.listenerTimer = s2.nextId]

\* focusHandler, without the cancelPending() of line 229
focusHandler_NoCancel(s, target) ==
  IF target # "inside" THEN notify(s, NoEvent) ELSE s

\* focusHandler(evt): lines 227-232.  this.element.contains(evt.target) is
\* true exactly for targets inside the watched element.
focusHandler(s, target) ==
  IF target # "inside" THEN notify(cancelPending(s), NoEvent) ELSE s

\* register, had it also canceled the pending idle timer
register_CancelsPending(s, f) ==
  LET s1 == cancelPending(s)
  IN IF \E i \in 1..Len(s1.registeredCallbacks) : s1.registeredCallbacks[i] = f
     THEN s1
     ELSE [s1 EXCEPT !.registeredCallbacks = Append(@, f)]

\* register, without the includes() test of line 251
register_NoCheck(s, f) == [s EXCEPT !.registeredCallbacks = Append(@, f)]

\* register(f): lines 250-256
register(s, f) ==
  IF \E i \in 1..Len(s.registeredCallbacks) : s.registeredCallbacks[i] = f
  THEN s
  ELSE [s EXCEPT !.registeredCallbacks = Append(@, f)]

\* call, without the cancelPending() of line 266
call_NoCancel(s, evt) == notify(s, evt)

\* call(evt): lines 265-269
call(s, evt) == notify(cancelPending(s), evt)

\* release, without line 292: the mouse-leave listener stays
release_KeepsMouseLeave(s) ==
  LET evs == {eventList[i] : i \in 1..Len(eventList)}
      s1 == [s EXCEPT !.observing = FALSE,
                      !.elListeners =
                         @ \ {[type |-> e, handler |-> "listener"] : e \in evs}]
      s2 == IF params.notifyOnFocusLoss
            THEN [s1 EXCEPT !.docListeners =
                    @ \ {[type |-> "focus", handler |-> "focusHandler", capture |-> FALSE]}]
            ELSE s1
  IN [s2 EXCEPT !.released = TRUE]

\* release, had it also cleared the idle timer: a second call then differs
release_AlsoCancels(s) ==
  LET evs == {eventList[i] : i \in 1..Len(eventList)}
      s1 == ClearTimeout(s, s.timeoutHandle)
      s2 == [s1 EXCEPT !.observing = FALSE,
                       !.elListeners =
                          (@ \ {[type |-> e, handler |-> "listener"] : e \in evs})
                             \ {[type |-> "mouseleave", handler |-> "notify"]},
                       !.docListeners = {}]
  IN [s2 EXCEPT !.released = TRUE]

\* release(): lines 288-294.  this.notifyOnFocusLoss and
\* this.notifyOnMouseLeave are the parameters (lines 162-163), written once.
release(s) ==
  LET evs == {eventList[i] : i \in 1..Len(eventList)}
      s1 == [s EXCEPT !.observing = FALSE]
      s2 == [s1 EXCEPT !.elListeners =
                @ \ {[type |-> e, handler |-> "listener"] : e \in evs}]
      s3 == IF params.notifyOnFocusLoss
            THEN [s2 EXCEPT !.docListeners =
                    @ \ {[type |-> "focus", handler |-> "focusHandler", capture |-> FALSE]}]
            ELSE s2
      s4 == IF params.notifyOnMouseLeave
            THEN [s3 EXCEPT !.elListeners =
                    @ \ {[type |-> "mouseleave", handler |-> "notify"]}]
            ELSE s3
  IN [s4 EXCEPT !.released = TRUE]

\* cleanup, had the test of line 198 never matched
cleanup_NeverMatches(s) == s

\* The MutationObserver callback `cleanup` (lines 195-203) for a record whose
\* removedNodes contains this.element
cleanup(s) == release(s)

\* Dispatch of an event of the given type at this.element: every listener
\* registered for the type runs with the event.
DispatchAtElement(s, type) ==
  LET s1 == IF [type |-> type, handler |-> "listener"] \in s.elListeners
            THEN listener([s EXCEPT !.ran = @ \cup {"listener"}]) ELSE s
  IN IF [type |-> type, handler |-> "notify"] \in s1.elListeners
     THEN notify([s1 EXCEPT !.ran = @ \cup {"notify"}], type) ELSE s1

\* Dispatch of a focus event.  A listener on document sees it in the capture
\* phase, at the target when document itself is the target, and in the
\* bubble phase when the event bubbles: a native focus event does not, a
\* synthetic one may.
DispatchFocus(s, target, bubbles) ==
  IF \E l \in s.docListeners :
       /\ l.type = "focus" /\ l.handler = "focusHandler"
       /\ (l.capture \/ target = "document" \/ bubbles)
  THEN focusHandler([s EXCEPT !.ran = @ \cup {"focusHandler"}], target) ELSE s

\* ------------------------------------------- since the last raw event
\* active: a raw event reached the listener; clean: no mouse-leave, focus,
\* call, cancelPending or release since; had: callbacks were registered
\* when it came; fires: the notifications since.
NoBurst == [active |-> FALSE, clean |-> FALSE, had |-> FALSE, fires |-> 0]

Registered(rc) == {rc[i] : i \in 1..Len(rc)}

\* A raw event that reaches the listener starts the count again.
BurstOnRaw(rc) ==
  [active |-> TRUE, clean |-> TRUE, had |-> rc # <<>>, fires |-> 0]

\* The clock of silence stops once both debounce windows have gone by.
SinceCap(p) == p.eventDebounceTimeout + p.callbackDebounceTimeout

\* ------------------------------------------------------------------- Init
\* Three families of constructor arguments: every pair of debounce windows
\* with the default flags, every pair of flags, every way to name the target.
TimeoutParams ==
  [selector : {Undefined}, element : {"elA"},
   eventDebounceTimeout : 0..MaxEd, callbackDebounceTimeout : 0..MaxCd,
   notifyOnFocusLoss : {FALSE}, notifyOnMouseLeave : {TRUE},
   interactiveEvents : {DefaultInteractiveEvents}]

FlagParams ==
  [selector : {Undefined}, element : {"elA"},
   eventDebounceTimeout : {1}, callbackDebounceTimeout : {1},
   notifyOnFocusLoss : BOOLEAN, notifyOnMouseLeave : BOOLEAN,
   interactiveEvents : {<<"click">>}]

TargetParams ==
  [selector : {Undefined, "", "#a"},
   element : {Undefined, "elA", "elN", "elO"},
   eventDebounceTimeout : {1}, callbackDebounceTimeout : {1},
   notifyOnFocusLoss : {FALSE}, notifyOnMouseLeave : {TRUE},
   interactiveEvents : {DefaultInteractiveEvents}]

\* ------------------------------------------------- debounce, on its own
\* The values debounce(n, immed, f) is tried with: a boolean or a function
\* or something else for immed, a function or nothing for f.
ImmedValues == {"true", "false", "function", Undefined, "abc"}
FValues == {"function", Undefined}
WrapperArgs == {"x", "y"}

\* Object.prototype.toString.call(v), lines 45-52
ToStringTag(v) ==
  CASE v \in {"true", "false"} -> "[object Boolean]"
    [] v = "function" -> "[object Function]"
    [] v = Undefined -> "[object Undefined]"
    [] OTHER -> "[object String]"

\* [func, now] of lines 44-54; threw: the TypeError of line 51
FuncNow(immed, f) ==
  CASE ToStringTag(immed) = "[object Boolean]" ->
         [threw |-> FALSE, func |-> f, now |-> (immed = "true")]
    [] ToStringTag(immed) = "[object Function]" ->
         [threw |-> FALSE, func |-> immed, now |-> FALSE]
    [] OTHER -> [threw |-> TRUE, func |-> Undefined, now |-> FALSE]

\* No wrapper made yet.  made, n, immed, f: the outcome and the arguments of
\* debounce(); func, now, timer: the closure's variables; timers, nextId: the
\* host's timers for this wrapper.  The rest is history: op and err of the
\* last step, log the invocations of fn it made, ret what the last call
\* returned, lastArgs its arguments, since the time since it, cleared what
\* it canceled, trail the timer invocations of fn after it.
NoWrapper ==
  [made |-> "none", n |-> 0, immed |-> Undefined, f |-> Undefined,
   func |-> Undefined, now |-> FALSE, timer |-> NoTimer,
   timers |-> {}, nextId |-> 1,
   op |-> "-", err |-> "none", log |-> <<>>, ret |-> NoTimer,
   lastArgs |-> "-", since |-> 0, cleared |-> {}, trail |-> 0]

\* debounce(n, immed, f): lines 39-65, up to the return of the wrapper.
debounce(n, immed, f) ==
  LET a == FuncNow(immed, f)
      d == [NoWrapper EXCEPT !.op = "create", !.n = n, !.immed = immed, !.f = f]
  IN IF a.threw
     THEN [d EXCEPT !.made = "threw", !.err = "TypeError"]
     ELSE [d EXCEPT !.made = "ok", !.func = a.func, !.now = a.now]

\* fn.apply(this, args), when fn is not a function
NotCallable(d) == d.func # "function"

\* the wrapper, without the clearTimeout(timer) of line 61
wrapper_NoClear(d, args) ==
  LET d0 == [d EXCEPT !.op = "call", !.err = "none", !.log = <<>>,
                      !.ret = NoTimer, !.lastArgs = args, !.since = 0,
                      !.cleared = {}, !.trail = 0]
      leading == d.timer = NoTimer /\ d.now
  IN IF leading /\ NotCallable(d)
     THEN [d0 EXCEPT !.err = "TypeError"]
     ELSE LET d1 == IF leading
                    THEN [d0 EXCEPT !.log = <<[args |-> args, how |-> "sync"]>>]
                    ELSE d0
          IN [SetTimeout(d1, args, d1.n)
                EXCEPT !.timer = d1.nextId, !.ret = d1.nextId]

\* The wrapper debounce returns, called with args: lines 57-64.  A TypeError
\* of fn.apply at line 59 ends the call there.
wrapper(d, args) ==
  LET d0 == [d EXCEPT !.op = "call", !.err = "none", !.log = <<>>,
                      !.ret = NoTimer, !.lastArgs = args, !.since = 0,
                      !.cleared = {}, !.trail = 0]
      leading == d.timer = NoTimer /\ d.now
  IN IF leading /\ NotCallable(d)
     THEN [d0 EXCEPT !.err = "TypeError"]
     ELSE LET d1 == IF leading
                    THEN [d0 EXCEPT !.log = <<[args |-> args, how |-> "sync"]>>]
                    ELSE d0
          IN [SetTimeout(ClearTimeout(d1, d1.timer), args, d1.n)
                EXCEPT !.timer = d1.nextId, !.ret = d1.nextId]

\* The timer's callback of line 62, for the timer t that came due.
timerCallback(d, t) ==
  LET d0 == [d EXCEPT !.op = "fire", !.err = "none", !.log = <<>>,
                      !.timers = @ \ {t}]
  IN IF NotCallable(d)
     THEN [d0 EXCEPT !.err = "TypeError"]
     ELSE [d0 EXCEPT !.log = <<[args |-> t.kind, how |-> "timer"]>>,
                     !.trail = Bump(@)]

InitWith(P) ==
  /\ deb = NoWrapper
  /\ quiet = FALSE
  /\ phase = "new"
  /\ err = "none"
  /\ params \in P
  /\ doc \in IF params.element = Undefined
             THEN {{"elA", "elN"}, {"elA", "elU", "elN"}}
             ELSE {{"elA", "elN"}}
  /\ selector = Undefined
  /\ element = Undefined
  /\ eventList = <<>>
  /\ registeredCallbacks = <<>>
  /\ timeoutHandle = NoTimer
  /\ listenerTimer = NoTimer
  /\ debouncedTimer = NoTimer
  /\ timers = {}
  /\ nextId = 1
  /\ elListeners = {}
  /\ docListeners = {}
  /\ observing = FALSE
  /\ attached = FALSE
  /\ released = FALSE
  /\ lastOp = "init"
  /\ lastArg = "-"
  /\ ran = {}
  /\ cleared = {}
  /\ nNotify = 0
  /\ lastNotify = <<>>
  /\ sinceRaw = SinceCap(params)
  /\ cancelSilence = FALSE
  /\ burst = NoBurst

Init == InitWith(TimeoutParams \cup FlagParams \cup TargetParams)
InitTimeouts == InitWith(TimeoutParams)
InitFlags == InitWith(FlagParams)
InitTargets == InitWith(TargetParams)
InitQuiet ==
  InitWith({p \in FlagParams : p.notifyOnFocusLoss /\ p.notifyOnMouseLeave})
InitDebounce ==
  InitWith({p \in TimeoutParams :
              p.eventDebounceTimeout = 0 /\ p.callbackDebounceTimeout = 0})

\* ------------------------------------------------------------ constructor
\* line 165, had it looked at the element's id only
SelectorOf_IdOnly(p) ==
  IF Truthy(OptId(p.element)) THEN TemplateId(p.element) ELSE ""

\* line 165: selector || element?.id ? `#${element?.id}` : ''
\* (the conditional operator binds looser than ||)
SelectorOf(p) ==
  IF Truthy(p.selector) \/ Truthy(OptId(p.element))
  THEN TemplateId(p.element) ELSE ""

\* line 173: element || assertExists(document.querySelector(this.selector))
ElementOf(p, d) ==
  IF p.element # Undefined THEN p.element ELSE QuerySelector(d, SelectorOf(p))

\* lines 181-191: the listeners the constructor adds
ConstructedElListeners(p) ==
  {[type |-> p.interactiveEvents[i], handler |-> "listener"] :
      i \in 1..Len(p.interactiveEvents)}
  \cup (IF p.notifyOnMouseLeave
        THEN {[type |-> "mouseleave", handler |-> "notify"]} ELSE {})

ConstructedDocListeners(p) ==
  IF p.notifyOnFocusLoss
  THEN {[type |-> "focus", handler |-> "focusHandler", capture |-> FALSE]}
  ELSE {}

Construct ==
  /\ phase = "new"
  /\ lastOp' = "construct"
  \* line 126: the field initializer schedules an empty timer
  /\ timers' = {[id |-> nextId, kind |-> "noop", rem |-> 0]}
  /\ timeoutHandle' = nextId
  /\ nextId' = nextId + 1
  /\ selector' = SelectorOf(params)
  /\ eventList' = params.interactiveEvents
  /\ registeredCallbacks' = <<>>
  /\ IF SelectorOf(params) = ""
     THEN \* line 170
          /\ phase' = "failed" /\ err' = "No selector or element id provided."
          /\ UNCHANGED <<element, elListeners, docListeners, observing, attached>>
     ELSE IF ElementOf(params, doc) = Null
     THEN \* line 173, assertExists
          /\ phase' = "failed" /\ err' = "Object unexpectedly null"
          /\ UNCHANGED <<element, elListeners, docListeners, observing, attached>>
     ELSE /\ element' = ElementOf(params, doc)
          /\ elListeners' = ConstructedElListeners(params)
          /\ docListeners' = ConstructedDocListeners(params)
          /\ IF ParentNode(ElementOf(params, doc)) = Null
             THEN \* line 206: observe(null) throws
                  /\ phase' = "failed" /\ err' = "TypeError"
                  /\ UNCHANGED <<observing, attached>>
             ELSE /\ phase' = "live" /\ err' = "none"
                  /\ observing' = TRUE /\ attached' = TRUE
  /\ lastArg' = "-"
  /\ UNCHANGED <<params, doc, listenerTimer, debouncedTimer, released, deb,
                 quiet, ran, cleared, nNotify, lastNotify, sinceRaw,
                 cancelSilence, burst>>

\* ------------------------------------------------------------ the holder
Ext == <<phase, err, params, doc, selector, element, eventList, attached, deb,
         quiet>>

Register ==
  /\ phase = "live"
  /\ \E f \in Callbacks : Commit(register(St, f)) /\ lastArg' = f
  /\ lastOp' = "register"
  /\ cancelSilence' = FALSE
  /\ UNCHANGED <<Ext, sinceRaw>>

Call ==
  /\ phase = "live"
  /\ \E evt \in CallEvents :
       Commit([call(St, evt) EXCEPT !.burst = NoBurst]) /\ lastArg' = evt
  /\ lastOp' = "call"
  /\ cancelSilence' = FALSE
  /\ UNCHANGED <<Ext, sinceRaw>>

CancelPending ==
  /\ phase = "live"
  /\ Commit([cancelPending(St) EXCEPT !.burst = NoBurst])
  /\ lastOp' = "cancelPending"
  /\ lastArg' = "-"
  /\ cancelSilence' = TRUE
  /\ UNCHANGED <<Ext, sinceRaw>>

Release ==
  /\ phase = "live"
  /\ Commit([release(St) EXCEPT !.burst = NoBurst])
  /\ lastOp' = "release"
  /\ lastArg' = "-"
  /\ cancelSilence' = FALSE
  /\ UNCHANGED <<Ext, sinceRaw>>

\* ------------------------------------------------------------ the document
\* A raw event of an interactive kind is dispatched at the element.
RawEvent ==
  /\ phase # "new" /\ element # Undefined
  /\ nextId < MaxTimerId
  /\ \E type \in DeliveredEvents :
       LET heard == [type |-> type, handler |-> "listener"] \in elListeners
           s == DispatchAtElement(St, type)
       IN /\ Commit(IF heard THEN [s EXCEPT !.burst = BurstOnRaw(registeredCallbacks)] ELSE s)
          /\ sinceRaw' = IF heard THEN 0 ELSE sinceRaw
  /\ lastOp' = "raw"
  /\ lastArg' = "-"
  /\ cancelSilence' = FALSE
  /\ UNCHANGED Ext

MouseLeave ==
  /\ phase # "new" /\ element # Undefined
  /\ Commit([DispatchAtElement(St, "mouseleave") EXCEPT !.burst = NoBurst])
  /\ lastOp' = "mouseleave"
  /\ lastArg' = "-"
  /\ cancelSilence' = FALSE
  /\ UNCHANGED <<Ext, sinceRaw>>

Focus ==
  /\ phase # "new" /\ element # Undefined
  /\ \E target \in FocusTargets, bubbles \in BOOLEAN :
       /\ Commit([DispatchFocus(St, target, bubbles) EXCEPT !.burst = NoBurst])
       /\ lastArg' = target
  /\ lastOp' = "focus"
  /\ cancelSilence' = FALSE
  /\ UNCHANGED <<Ext, sinceRaw>>

\* The element is removed from its parent; the observer, when connected,
\* delivers the record to cleanup.
RemoveTarget ==
  /\ phase = "live" /\ attached
  /\ attached' = FALSE
  /\ Commit([(IF observing THEN cleanup(St) ELSE St) EXCEPT !.burst = NoBurst])
  /\ lastOp' = "remove"
  /\ lastArg' = IF observing THEN "observed" ELSE "-"
  /\ cancelSilence' = FALSE
  /\ UNCHANGED <<phase, err, params, doc, selector, element, eventList, sinceRaw,
                 deb, quiet>>

\* ---------------------------------------------------------------- timers
Due == {t \in timers : t.rem = 0}

\* line 126's empty callback
NoopFire ==
  /\ \E t \in Due :
       /\ t.kind = "noop"
       /\ Commit([St EXCEPT !.timers = @ \ {t}])
  /\ lastOp' = "noopFire"
  /\ lastArg' = "-"
  /\ UNCHANGED <<Ext, attached, sinceRaw, cancelSilence>>

\* the event-stage timer of line 62 runs the pulse
EventFire ==
  /\ \E t \in Due :
       /\ t.kind = "event"
       /\ Commit(pulse([St EXCEPT !.timers = @ \ {t}]))
  /\ lastOp' = "eventFire"
  /\ lastArg' = "-"
  /\ UNCHANGED <<Ext, attached, sinceRaw, cancelSilence>>

\* the callback-stage timer of line 62 runs notify with no argument
IdleFire ==
  /\ \E t \in Due :
       /\ t.kind = "idle"
       /\ Commit(notify([St EXCEPT !.timers = @ \ {t}], NoEvent))
  /\ lastOp' = "idleFire"
  /\ lastArg' = "-"
  /\ UNCHANGED <<Ext, attached, sinceRaw, cancelSilence>>

\* One millisecond passes; a due timer runs before time moves on.
Tick ==
  /\ phase # "new"
  /\ Due = {}
  /\ timers' = {[t EXCEPT !.rem = @ - 1] : t \in timers}
  /\ sinceRaw' = IF sinceRaw < SinceCap(params) THEN sinceRaw + 1 ELSE sinceRaw
  /\ lastOp' = "tick"
  /\ lastArg' = "-"
  /\ ran' = {}
  /\ cleared' = {}
  /\ nNotify' = 0
  /\ lastNotify' = <<>>
  /\ UNCHANGED <<Ext, registeredCallbacks, timeoutHandle, listenerTimer,
                 debouncedTimer, nextId, elListeners, docListeners, observing,
                 released, cancelSilence, burst>>

Next ==
  \/ Construct
  \/ Register
  \/ Call
  \/ CancelPending
  \/ Release
  \/ RawEvent
  \/ MouseLeave
  \/ Focus
  \/ RemoveTarget
  \/ NoopFire
  \/ EventFire
  \/ IdleFire
  \/ Tick

Spec == Init /\ [][Next]_vars
SpecTimeouts == InitTimeouts /\ [][Next]_vars
SpecFlags == InitFlags /\ [][Next]_vars
SpecTargets == InitTargets /\ [][Next]_vars

\* ------------------------------------------------ the event loop at rest
\* From some moment on the document delivers nothing and the holder calls
\* nothing: what is left to run is the timers.
Quiesce ==
  /\ phase = "live"
  /\ ~quiet
  /\ quiet' = TRUE
  /\ lastOp' = "quiesce"
  /\ lastArg' = "-"
  /\ ran' = {}
  /\ cleared' = {}
  /\ nNotify' = 0
  /\ lastNotify' = <<>>
  /\ UNCHANGED <<phase, err, params, doc, selector, element, eventList,
                 attached, deb, registeredCallbacks, timeoutHandle,
                 listenerTimer, debouncedTimer, timers, nextId, elListeners,
                 docListeners, observing, released, sinceRaw, cancelSilence,
                 burst>>

NextQuiet ==
  \/ ~quiet /\ Construct
  \/ ~quiet /\ Register
  \/ ~quiet /\ Call
  \/ ~quiet /\ CancelPending
  \/ ~quiet /\ Release
  \/ ~quiet /\ RawEvent
  \/ ~quiet /\ MouseLeave
  \/ ~quiet /\ Focus
  \/ ~quiet /\ RemoveTarget
  \/ Quiesce
  \/ NoopFire
  \/ EventFire
  \/ IdleFire
  \/ Tick

\* setTimeout's contract, for the loop at rest: time passes and a timer that
\* is due and has not been cleared runs.
TimerStep == Tick \/ NoopFire \/ EventFire \/ IdleFire
TimersRun == WF_vars(quiet /\ TimerStep)

SpecQuiet == InitQuiet /\ [][NextQuiet]_vars /\ TimersRun

\* ---------------------------------------- debounce on its own: the steps
\* Everything of the watcher, which these steps leave alone.
watcher == <<phase, err, params, doc, selector, element, eventList,
             attached, registeredCallbacks, timeoutHandle, listenerTimer,
             debouncedTimer, timers, nextId, elListeners, docListeners,
             observing, released, lastOp, lastArg, ran, cleared,
             nNotify, lastNotify, sinceRaw, cancelSilence, burst, quiet>>

DebCreate ==
  /\ deb.made # "ok"
  /\ \E n \in 0..MaxN, immed \in ImmedValues, f \in FValues :
       deb' = debounce(n, immed, f)
  /\ UNCHANGED watcher

DebCall ==
  /\ deb.made = "ok"
  /\ deb.nextId < MaxDebId
  /\ \E args \in WrapperArgs : deb' = wrapper(deb, args)
  /\ UNCHANGED watcher

DebFire ==
  /\ deb.made = "ok"
  /\ \E t \in deb.timers : t.rem = 0 /\ deb' = timerCallback(deb, t)
  /\ UNCHANGED watcher

DebTick ==
  /\ deb.made = "ok"
  /\ deb.timers # {}
  /\ \A t \in deb.timers : t.rem > 0
  /\ deb' = [deb EXCEPT !.op = "tick", !.err = "none", !.log = <<>>,
                        !.timers = {[t EXCEPT !.rem = @ - 1] : t \in @},
                        !.since = @ + 1]
  /\ UNCHANGED watcher

NextDebounce ==
  \/ DebCreate
  \/ DebCall
  \/ DebFire
  \/ DebTick

SpecDebounce == InitDebounce /\ [][NextDebounce]_vars

TypeOK ==
  /\ phase \in {"new", "live", "failed"}
  /\ nextId \in 1..(MaxTimerId + 1)
  /\ \A t \in timers : t.id < nextId /\ t.rem >= 0
  /\ sinceRaw \in 0..SinceCap(params)
  /\ nNotify \in 0..CountCap

\* ------------------------------------------------------------ vocabulary
IdleTimers == {t \in timers : t.kind = "idle"}
EventTimers == {t \in timers : t.kind = "event"}
Ed == params.eventDebounceTimeout
Cd == params.callbackDebounceTimeout
NoDuplicates(rc) == \A i, j \in 1..Len(rc) : rc[i] = rc[j] => i = j
IsPrefix(a, b) == Len(a) <= Len(b) /\ \A i \in 1..Len(a) : a[i] = b[i]
OnceEach(rc, evt) == [i \in 1..Len(rc) |-> <<rc[i], evt>>]

\* ------------------------------------------------------------------ C1
\* C1: with notifyOnMouseLeave, a pointer-leave delivered to the live watcher
\* invokes every registered callback at once and leaves no idle timer
\* outstanding: the idle timer that was pending is canceled and cannot fire
\* later.
C1_MouseLeaveCancelsIdle ==
  (/\ lastOp = "mouseleave"
   /\ [type |-> "mouseleave", handler |-> "notify"] \in elListeners)
  => /\ lastNotify = OnceEach(registeredCallbacks, "mouseleave")
     /\ IdleTimers = {}

\* ------------------------------------------------------------------ C2
\* C2: once cancelPending() has been called and nothing but time has passed
\* since, no callback is invoked.
C2_CancelThenSilence == cancelSilence => lastNotify = <<>>

\* ------------------------------------------------------------------ C3
\* C3: once release() has run the watcher holds no subscription, no step
\* schedules a timer, and callbacks are invoked by call() only.
C3_NothingAfterRelease ==
  released =>
    /\ elListeners = {} /\ docListeners = {} /\ ~observing
    /\ lastOp # "eventFire"
    /\ (lastNotify # <<>> => lastOp = "call")

\* ------------------------------------------------------------------ C4
\* C4: after release() the listeners construction added are all gone, and an
\* interaction, focus or mouse-leave event delivered afterwards invokes no
\* callback and starts or cancels no timer, whatever the two notify flags.
C4_EventsAfterReleaseInert ==
  [][(released /\ lastOp' \in {"raw", "mouseleave", "focus"})
       => /\ elListeners' = {} /\ docListeners' = {}
          /\ nNotify' = 0 /\ lastNotify' = <<>>
          /\ timers' = timers /\ nextId' = nextId]_vars

C4_Witness ==
  /\ released /\ lastOp = "focus" /\ lastArg = "document"
  /\ params.notifyOnFocusLoss /\ params.notifyOnMouseLeave
  /\ registeredCallbacks # <<>>

\* ------------------------------------------------------------------ C5
\* C5: the idle timer never fires while a raw event has been received whose
\* event-debounce timer has not run yet.
C5_NoIdleFireWhileRawPending == lastOp = "idleFire" => EventTimers = {}

\* ------------------------------------------------------------------ C6
\* C6: when a raw event was followed by silence of eventDebounceTimeout +
\* callbackDebounceTimeout with no mouse-leave, focus, call, cancelPending or
\* release, and every timer due by then has run, the callbacks that were
\* registered when the event came have been notified exactly once since that
\* event; and never more than once before.
C6_ExactlyOncePerIdlePeriod ==
  (burst.active /\ burst.clean /\ burst.had) =>
     /\ burst.fires <= 1
     /\ (sinceRaw >= Ed + Cd /\ Due = {}) => burst.fires = 1

\* ------------------------------------------------------------------ C7
\* C7: call(evt) invokes every registered callback exactly once, in the same
\* step, with the event given, and leaves no idle timer outstanding: the one
\* that was pending is canceled, and a handle is never handed out again.
C7_CallFiresAndCancels ==
  lastOp = "call" =>
    /\ nNotify = 1
    /\ lastNotify = OnceEach(registeredCallbacks, lastArg)
    /\ IdleTimers = {}
    /\ \A t \in timers : t.id # timeoutHandle

C7_Witness ==
  /\ lastOp = "call" /\ "idle" \in cleared
  /\ Len(registeredCallbacks) = 2 /\ lastArg = "custom"

\* ------------------------------------------------------------------ C8
\* C8: at most one idle timer is outstanding, timeoutHandle designates it,
\* and a step that starts an idle timer leaves none of the earlier ones
\* outstanding.
C8_OneIdleTimer ==
  [][LET before == {t \in timers : t.kind = "idle"}
         after == {t \in timers' : t.kind = "idle"}
     IN /\ Cardinality(after) <= 1
        /\ \A t \in after : t.id = timeoutHandle'
        /\ (\E t \in after : t.id >= nextId)
              => \A t \in before : \A u \in timers' : u.id # t.id]_vars

C8_Witness ==
  /\ lastOp = "eventFire" /\ "idle" \in cleared
  /\ \E t \in IdleTimers : t.id = timeoutHandle /\ t.id = nextId - 1

\* ------------------------------------------------------------------ C9
\* C9: registeredCallbacks never holds a callback twice, a register call
\* leaves the callbacks already there in place and has its argument in the
\* list afterwards, and every notification invokes each registered callback
\* exactly once, in list order.
C9_RegisterIdempotent ==
  [][/\ NoDuplicates(registeredCallbacks')
     /\ IsPrefix(registeredCallbacks, registeredCallbacks')
     /\ lastOp' = "register" =>
          /\ lastArg' \in Registered(registeredCallbacks')
          /\ Len(registeredCallbacks') <= Len(registeredCallbacks) + 1
     /\ nNotify' = 1 =>
          \E evt \in CallEvents \cup {"mouseleave"} :
             lastNotify' = OnceEach(registeredCallbacks', evt)]_vars

C9_Witness ==
  /\ lastOp = "register" /\ Len(registeredCallbacks) = 2
  /\ lastArg = registeredCallbacks[1]

\* ------------------------------------------------------------------ C10
\* C10: construction from a selector alone that resolves to an element of
\* the document succeeds, and the watcher's target is that element.
C10_SelectorOnlyTarget ==
  (/\ lastOp = "construct"
   /\ params.element = Undefined /\ Truthy(params.selector)
   /\ QuerySelector(doc, params.selector) # Null)
  => /\ phase = "live"
     /\ element = QuerySelector(doc, params.selector)

\* ------------------------------------------------------------------ C11
\* C11: a constructor that throws leaves no interaction, focus or mouse-leave
\* listener of its own registered.
C11_NoPartialWatcher ==
  phase = "failed" => elListeners = {} /\ docListeners = {}

\* ------------------------------------------------------------------ C12
\* C12: the constructor throws 'No selector or element id provided.' exactly
\* when it is given neither a non-empty selector nor an element with a
\* non-empty id, and then no listener and no observer has been attached.
ConfigurationError == "No selector or element id provided."

C12_ConfigurationError ==
  lastOp = "construct" =>
    /\ (err = ConfigurationError)
          <=> (~Truthy(params.selector) /\ ~Truthy(OptId(params.element)))
    /\ err = ConfigurationError =>
          /\ phase = "failed"
          /\ elListeners = {} /\ docListeners = {} /\ ~observing

C12_Witness ==
  /\ lastOp = "construct" /\ err = ConfigurationError
  /\ params.element = "elN" /\ params.selector = ""

\* ------------------------------------------------------------------ C13
\* C13: when the connected observer reports the removal of the target, the
\* step leaves what release() leaves: observer disconnected, no interaction,
\* focus or mouse-leave listener; and an interaction event delivered once the
\* target is removed invokes no callback and touches no timer.
C13_RemovalTearsDown ==
  [][/\ (lastOp' = "remove" /\ lastArg' = "observed") =>
          /\ ~observing' /\ released'
          /\ elListeners' = {} /\ docListeners' = {}
     /\ (~attached /\ lastOp' = "raw") =>
          /\ nNotify' = 0 /\ lastNotify' = <<>>
          /\ timers' = timers /\ nextId' = nextId]_vars

C13_Witness ==
  /\ lastOp = "remove" /\ lastArg = "observed"
  /\ params.notifyOnFocusLoss /\ params.notifyOnMouseLeave
  /\ registeredCallbacks # <<>> /\ timers # {}

\* ------------------------------------------------------------------ C14
\* C14: a raw event starts or resets no idle timer and invokes no callback;
\* when the listener hears it, the one event-stage timer outstanding
\* afterwards is the new one, a full eventDebounceTimeout away; the pulse
\* comes only eventDebounceTimeout after the last raw event and leaves no
\* event-stage timer behind: one pulse for the whole burst.
C14_OnePulsePerBurst ==
  [][/\ Cardinality({t \in timers' : t.kind = "event"}) <= 1
     /\ lastOp' = "raw" =>
          /\ {t \in timers' : t.kind = "idle"} = {t \in timers : t.kind = "idle"}
          /\ timeoutHandle' = timeoutHandle
          /\ nNotify' = 0 /\ lastNotify' = <<>>
          /\ nextId' # nextId =>
               {t \in timers' : t.kind = "event"} =
                  {[id |-> nextId, kind |-> "event",
                    rem |-> params.eventDebounceTimeout]}
     /\ lastOp' = "eventFire" =>
          /\ sinceRaw >= params.eventDebounceTimeout
          /\ {t \in timers' : t.kind = "event"} = {}]_vars

C14_Witness ==
  /\ lastOp = "raw" /\ "event" \in cleared /\ sinceRaw = 0
  /\ registeredCallbacks # <<>>
  /\ params.eventDebounceTimeout = 2

\* ------------------------------------------------------------------ C15
\* C15: when nothing but time follows a raw event, the idle timer notifies
\* no earlier than eventDebounceTimeout + callbackDebounceTimeout after it,
\* and that notification is the only one since the event.
C15_NotBeforeBothWindows ==
  (burst.active /\ burst.clean /\ lastOp = "idleFire") =>
     /\ sinceRaw >= Ed + Cd
     /\ burst.fires = 1

\* ------------------------------------------------------------------ C16
\* C16: focusHandler runs only with notifyOnFocusLoss; given a focus event
\* whose target is not inside the watched element it cancels the timer
\* timeoutHandle designates, so that no idle timer stays outstanding, and
\* invokes every registered callback once with no event; given a target
\* inside the element it invokes nothing and leaves timers and handle alone.
C16_FocusLoss ==
  [][(lastOp' = "focus" /\ "focusHandler" \in ran') =>
        /\ params.notifyOnFocusLoss
        /\ IF lastArg' # "inside"
           THEN /\ nNotify' = 1
                /\ lastNotify' = OnceEach(registeredCallbacks, NoEvent)
                /\ timers' = {t \in timers : t.id # timeoutHandle}
                /\ {t \in timers' : t.kind = "idle"} = {}
           ELSE /\ nNotify' = 0 /\ lastNotify' = <<>>
                /\ timers' = timers /\ timeoutHandle' = timeoutHandle]_vars

C16_Witness ==
  /\ lastOp = "focus" /\ "focusHandler" \in ran /\ lastArg = "outside"
  /\ "idle" \in cleared /\ registeredCallbacks # <<>>

\* ------------------------------------------------------------------ C17
\* C17: a wrapper in leading mode invokes fn synchronously, with the call's
\* arguments, on every call made while no invocation is pending, and on no
\* call made while one is pending.
C17_LeadingWheneverIdle ==
  [][(deb.made = "ok" /\ deb.now /\ deb.func = "function" /\ deb'.op = "call") =>
        IF deb.timers = {}
        THEN deb'.log = <<[args |-> deb'.lastArgs, how |-> "sync"]>>
        ELSE deb'.log = <<>>]_vars

\* ------------------------------------------------------------------ C18
\* C18: a wrapper has at most one invocation pending; a call leaves pending
\* only the invocation it scheduled, due after n, and returns that timer's
\* handle, which is also the closure's timer; the timer invokes fn once,
\* n after the last call, with the last call's arguments.
C18_LatestCallOnly ==
  [][/\ Cardinality(deb'.timers) <= 1
     /\ (deb'.op = "call" /\ deb'.err = "none") =>
          /\ deb'.timers = {[id |-> deb.nextId, kind |-> deb'.lastArgs,
                              rem |-> deb.n]}
          /\ deb'.ret = deb.nextId
          /\ deb'.timer = deb'.ret
     /\ (deb'.op = "fire" /\ deb.func = "function") =>
          /\ deb'.log = <<[args |-> deb.lastArgs, how |-> "timer"]>>
          /\ deb.since = deb.n
          /\ deb'.trail = 1
          /\ deb'.timers = {}]_vars

C18_Witness ==
  /\ deb.op = "fire" /\ deb.n = MaxN /\ deb.cleared = {"x"}
  /\ deb.log = <<[args |-> "y", how |-> "timer"]>>

\* ------------------------------------------------------------------ C19
\* C19: debounce(n, immed, f) throws a TypeError unless immed is a boolean
\* and f a function, or immed is a function.
C19_RejectedAtCreation ==
  deb.op = "create" =>
    (deb.made = "threw" <=>
       ~ \/ ToStringTag(deb.immed) = "[object Boolean]" /\ deb.f = "function"
         \/ ToStringTag(deb.immed) = "[object Function]")

\* ------------------------------------------------------------------ C20
\* C20: release() on a released watcher (released by release() or by the
\* observer's cleanup) raises nothing and changes neither the listeners, the
\* observer, the registered callbacks, the timers nor the stored handle.
C20_ReleaseIdempotent ==
  [][(released /\ lastOp' = "release") =>
        /\ phase' = "live" /\ err' = "none" /\ released'
        /\ elListeners' = elListeners /\ docListeners' = docListeners
        /\ observing' = observing
        /\ registeredCallbacks' = registeredCallbacks
        /\ timers' = timers /\ nextId' = nextId
        /\ timeoutHandle' = timeoutHandle]_vars

C20_Witness ==
  /\ lastOp = "release" /\ ~attached
  /\ IdleTimers # {} /\ registeredCallbacks # <<>>
  /\ params.notifyOnFocusLoss /\ params.notifyOnMouseLeave

\* ------------------------------------------------------------------ C21
\* C21: the invocations of a step are either none or one notification: every
\* registered callback once, in registration order, all with the same
\* argument.  The argument is no event when the idle timer notifies and the
\* leave event when the mouse-leave listener does.
C21_OrderAndArgument ==
  /\ nNotify = 0 => lastNotify = <<>>
  /\ nNotify > 0 =>
       /\ nNotify = 1
       /\ \E evt \in CallEvents \cup {"mouseleave"} :
            lastNotify = OnceEach(registeredCallbacks, evt)
  /\ lastOp = "idleFire" =>
       nNotify = 1 /\ lastNotify = OnceEach(registeredCallbacks, NoEvent)
  /\ (lastOp = "mouseleave" /\ "notify" \in ran) =>
       nNotify = 1 /\ lastNotify = OnceEach(registeredCallbacks, "mouseleave")

C21_Witness ==
  /\ lastOp = "idleFire" /\ Len(registeredCallbacks) = NumCallbacks
  /\ lastNotify = OnceEach(registeredCallbacks, NoEvent)
  /\ burst.active

\* ------------------------------------------------------------------ C22
\* C22: a watcher constructed with notifyOnFocusLoss has a capture-phase
\* focus listener on document; while it is subscribed, every focus event
\* targeted outside the watched element reaches focusHandler; release
\* leaves no listener on document.
C22_FocusCapture ==
  [][/\ (lastOp' = "construct" /\ phase' = "live" /\ params.notifyOnFocusLoss) =>
          \E l \in docListeners' :
             l.type = "focus" /\ l.handler = "focusHandler" /\ l.capture
     /\ (/\ lastOp' = "focus" /\ lastArg' = "outside"
         /\ phase = "live" /\ params.notifyOnFocusLoss /\ ~released) =>
          "focusHandler" \in ran'
     /\ lastOp' = "release" => docListeners' = {}]_vars

\* ------------------------------------------------------------------ C23
\* C23: register starts, cancels and resets no timer, changes no
\* subscription and invokes nothing; the idle timer notifies the callbacks
\* registered at the time it fires, those registered while it or the
\* event-stage timer was pending included.
C23_ListReadWhenFiring ==
  [][/\ lastOp' = "register" =>
          /\ timers' = timers /\ nextId' = nextId
          /\ timeoutHandle' = timeoutHandle
          /\ listenerTimer' = listenerTimer /\ debouncedTimer' = debouncedTimer
          /\ elListeners' = elListeners /\ docListeners' = docListeners
          /\ observing' = observing /\ released' = released
          /\ nNotify' = 0 /\ lastNotify' = <<>>
     /\ lastOp' = "idleFire" =>
          /\ registeredCallbacks' = registeredCallbacks
          /\ lastNotify' = OnceEach(registeredCallbacks, NoEvent)]_vars

\* No callback was registered when the raw event came; the idle timer it led
\* to notifies the callbacks registered since.
C23_Witness ==
  /\ lastOp = "idleFire" /\ burst.active /\ burst.clean /\ ~burst.had
  /\ Len(registeredCallbacks) = NumCallbacks
  /\ lastNotify = OnceEach(registeredCallbacks, NoEvent)
  /\ params.eventDebounceTimeout > 0 /\ params.callbackDebounceTimeout > 0

====
